---------------------------- MODULE Spec2Model ----------------------------
(***************************************************************************)
(* A model of the Sudoku engine of the repository: the constraint checker, *)
(* the backtracking solver, the capped solution counter, the randomized    *)
(* completer and the puzzle generator (src/components/game-board.tsx,      *)
(* lines 685-911).                                                         *)
(*                                                                         *)
(* A grid is a sequence of rows, each a sequence of cells; the source's    *)
(* board[row][col] with row, col counted from 0 is Cell(board, row, col).  *)
(* The source writes the side of the grid (9) and of a box (3) as          *)
(* literals.  The model reads the side off the grid and takes the box as   *)
(* its square root, so that the same definitions run on the program's      *)
(* grids (side 9) and on grids of side 4, on which the removal walk of the *)
(* generator can be followed to its end.                                   *)
(***************************************************************************)
EXTENDS Integers, Sequences, FiniteSets, TLC

\* null, and an array or a record that does not exist (yet)
Null == <<>>

(***************************************************************************)
(* Grids                                                                   *)
(***************************************************************************)
Sides == {4, 9}

BoxOf == [n \in Sides |-> CHOOSE k \in 1..n : k * k = n]

Side(board) == Len(board)

Cell(board, row, col) == board[row + 1][col + 1]

\* board[row][col] = num
Put(board, row, col, num) == [board EXCEPT ![row + 1][col + 1] = num]

\* board.map((row) => [...row]): a new array with the same cells
CopyGrid(board) == [r \in 1..Len(board) |-> [c \in 1..Len(board[r]) |-> board[r][c]]]

\* Array(9).fill(null).map(() => Array(9).fill(0))
EmptyGrid(n) == [r \in 1..n |-> [c \in 1..n |-> 0]]

(***************************************************************************)
(* Constraint checker                                                      *)
(***************************************************************************)
\* isValidMove without its column loop
isValidMoveNoColumn(board, row, col, num) ==
    LET n == Side(board)
        b == BoxOf[n]
        boxRow == (row \div b) * b
        boxCol == (col \div b) * b
    IN  /\ \A x \in 0..(n - 1) : ~(x # col /\ Cell(board, row, x) = num)
        /\ \A i \in boxRow..(boxRow + b - 1) : \A j \in boxCol..(boxCol + b - 1) :
              ~((i # row \/ j # col) /\ Cell(board, i, j) = num)

isValidMove(board, row, col, num) ==
    LET n == Side(board)
        b == BoxOf[n]
        boxRow == (row \div b) * b
        boxCol == (col \div b) * b
    IN  /\ \A x \in 0..(n - 1) : ~(x # col /\ Cell(board, row, x) = num)
        /\ \A x \in 0..(n - 1) : ~(x # row /\ Cell(board, x, col) = num)
        /\ \A i \in boxRow..(boxRow + b - 1) : \A j \in boxCol..(boxCol + b - 1) :
              ~((i # row \/ j # col) /\ Cell(board, i, j) = num)

\* validateSudoku without its test "board[row][col] === 0"
validateSudokuNoEmptyTest(board) ==
    \A row \in 0..(Side(board) - 1) : \A col \in 0..(Side(board) - 1) :
        isValidMove(board, row, col, Cell(board, row, col))

validateSudoku(board) ==
    \A row \in 0..(Side(board) - 1) : \A col \in 0..(Side(board) - 1) :
        /\ Cell(board, row, col) # 0
        /\ isValidMove(board, row, col, Cell(board, row, col))

\* The first cell holding 0 at or after index k of the row-major scan
\* (the nested row/col loops of the searches), as row * side + col; -1 if none.
FirstEmptyFrom(board, k) ==
    LET n == Side(board)
        empty == {j \in k..(n * n - 1) : Cell(board, j \div n, j % n) = 0}
    IN  IF empty = {} THEN -1 ELSE CHOOSE j \in empty : \A m \in empty : j <= m

FirstEmpty(board) == FirstEmptyFrom(board, 0)

(***************************************************************************)
(* Random source.  Math.random is one of a bounded family of streams: a    *)
(* stream is named by its seed, and rng.k counts the draws made so far.    *)
(***************************************************************************)
\* Math.floor(Math.random() * m) at draw k of the stream: a value of 0..m-1
Rand(seed, k, m) ==
    LET a == (k % 997) * 53
        b == (((k % 101) * (k % 101)) % 101) * 7
        c == (k \div 5) % 997
    IN  ((seed * 37 + a + b + c) % 997) % m

NewRng(seed) == [seed |-> seed, k |-> 0]

SwapAt(a, i, j) == [a EXCEPT ![i + 1] = a[j + 1], ![j + 1] = a[i + 1]]

\* The iterations i = hi, hi - 1, ..., lo of the loop
\* "for (let i = shuffled.length - 1; i > 0; i--)"; iteration i makes draw
\* number rng.k + (shuffled.length - 1 - i).  The range is split in halves to
\* keep the evaluation shallow.
RECURSIVE shuffleRange(_, _, _, _)
shuffleRange(shuffled, hi, lo, rng) ==
    IF hi < lo THEN shuffled
    ELSE IF hi = lo
         THEN SwapAt(shuffled, hi,
                     Rand(rng.seed, rng.k + (Len(shuffled) - 1 - hi), hi + 1))
         ELSE LET mid == (hi + lo) \div 2 IN
              CHOOSE lower \in {shuffleRange(upper, mid, lo, rng) :
                                   upper \in {shuffleRange(shuffled, hi, mid + 1, rng)}} : TRUE

\* The random source after the draws of one shuffleArray(array): one draw
\* for each i from array.length - 1 down to 1
AfterShuffle(array, rng) ==
    [rng EXCEPT !.k = rng.k + (IF Len(array) > 1 THEN Len(array) - 1 ELSE 0)]

\* Returns the shuffled copy; the argument array is left as it was.
shuffleArray(array, rng) ==
    [array |-> shuffleRange(array, Len(array) - 1, 1, rng),
     rng |-> AfterShuffle(array, rng)]

Digits(n) == [d \in 1..n |-> d]

(***************************************************************************)
(* State                                                                   *)
(***************************************************************************)
VARIABLES
    mem,           \* the arrays: the caller's board, solveSudoku's solution (solved),
                   \* generateSudoku's solution, createPuzzleFromSolution's board
                   \* (puzzle), hasUniqueSolution's boardCopy
    work,          \* the array the running search was handed
    kind,          \* the search that is running: "solve", "count", "fill" or "none"
    frames,        \* its invocations that are inside their digit loop, outermost first
    mpc,           \* "enter": an invocation starts; "loop": the innermost one is at
                   \* its loop head; "exit": an invocation has just returned
    ret,           \* the value returned by the last invocation of solve / fill
    solutions,     \* the list handed to countSolutionsLimited
    limit,         \* its limit
    rng,           \* the random source
    size,          \* side of the grids of this run
    gpc,           \* generateSudoku: "start", "fill", "walk", "probe", "final", "done"
    options,       \* its argument
    positions,     \* createPuzzleFromSolution: the coordinates it walks
    i,             \* createPuzzleFromSolution: loop index
    removed,       \* createPuzzleFromSolution: cells removed so far
    originalValue, \* createPuzzleFromSolution: digit of the cell being tried
    attempts,      \* calls of generateSudoku made for this request
    returned,      \* the Puzzle returned, or Null
    spc,           \* caller of solveSudoku and of the counter: "idle", "solving",
                   \* "solved", "counting", "counted"
    input,         \* the grid as it was when the caller made its call
    result,        \* what solveSudoku returned: a grid or Null
    call,          \* the last call of validateSudoku or isValidMove made from
                   \* outside the searches: its arguments and its result
    upc,           \* validateExtractedPuzzle: "idle", "solving", "done"
    validation,    \* what validateExtractedPuzzle returned, or Null
    trace,         \* what it has called so far, in order
    puzzleHashes,  \* localStorage item "puzzleHashes"
    puzzleHash,    \* checkForDuplicate: the fingerprint it computed last
    hashed,        \* every board fingerprinted so far, with its fingerprint
    uploads,       \* uploads handled so far
    puzzle,        \* the Puzzle handleFileUpload made of the last valid upload
    gameState,     \* GameBoard: its gameState prop, the puzzle object included
    selectedCell,  \* GameBoard: the selected cell <<row, col>>, or Null
    settings,      \* GameBoard: its settings prop
    bpc,           \* GameBoard: "idle", or the handler that is inside solveSudoku
    created,       \* the Puzzle of this game as it was created
    storageWorks,  \* whether localStorage can be read and written in this session
    gameHistory,   \* localStorage item "gameHistory"
    lastGame,      \* addGameToHistory: its argument in the last call
    adds           \* calls of addGameToHistory made so far

vars == <<mem, work, kind, frames, mpc, ret, solutions, limit, rng, size, gpc,
          options, positions, i, removed, originalValue, attempts, returned, spc, input,
          result, call, upc, validation, trace, puzzleHashes, puzzleHash, hashed,
          uploads, puzzle, gameState, selectedCell, settings, bpc, created,
          storageWorks, gameHistory, lastGame, adds>>

genVars == <<gpc, options, positions, i, removed, originalValue, attempts, returned>>
callerVars == <<spc, input, result>>
searchVars == <<mem, work, kind, frames, mpc, ret, solutions, limit, rng>>
checkVars == <<call>>
uploadVars == <<upc, validation, trace, puzzleHashes, puzzleHash, hashed, uploads, puzzle>>
gameVars == <<gameState, selectedCell, settings, bpc, created>>
storeVars == <<storageWorks, gameHistory, lastGame, adds>>
appVars == <<checkVars, uploadVars, gameVars, storeVars>>

NoCall == [fn |-> "none", row |-> 0, col |-> 0, num |-> 0, result |-> FALSE]
CheckOff == call = NoCall
UploadOff ==
    /\ upc = "off" /\ validation = Null /\ trace = <<>> /\ puzzleHashes = <<>>
    /\ puzzleHash = <<>> /\ hashed = {} /\ uploads = 0 /\ puzzle = Null

GameOff ==
    /\ gameState = Null /\ selectedCell = Null /\ settings = Null /\ bpc = "off"
    /\ created = Null

StoreOff ==
    /\ storageWorks = TRUE /\ gameHistory = <<>> /\ lastGame = Null /\ adds = 0

Top == frames[Len(frames)]
Pop == SubSeq(frames, 1, Len(frames) - 1)
SetTopIdx(j) == [frames EXCEPT ![Len(frames)].idx = j]

\* The invocation found the empty cell e and starts its loop over numbers.
Frame(board, e, numbers) ==
    [row |-> e \div Side(board), col |-> e % Side(board), numbers |-> numbers, idx |-> 1]

\* NextValid taking the last of the numbers that fit in place of the first
NextValidLast(board, f) ==
    LET ok == {j \in f.idx..Len(f.numbers) :
                 isValidMove(board, f.row, f.col, f.numbers[j])}
    IN  IF ok = {} THEN 0 ELSE CHOOSE j \in ok : \A k \in ok : j >= k

\* The position, from idx on, of the first of numbers that isValidMove lets
\* into (row, col); 0 if there is none.
NextValid(board, f) ==
    LET ok == {j \in f.idx..Len(f.numbers) :
                 isValidMove(board, f.row, f.col, f.numbers[j])}
    IN  IF ok = {} THEN 0 ELSE CHOOSE j \in ok : \A k \in ok : j <= k

Returned == mpc = "exit" /\ frames = <<>>

(***************************************************************************)
(* Solver: solveBacktrack, one step per digit placed or invocation left    *)
(***************************************************************************)
\* solveBacktrackEnter reporting failure where no cell is empty
solveBacktrackEnterFailsWhenFull ==
    /\ kind = "solve" /\ mpc = "enter"
    /\ LET e == FirstEmpty(mem[work]) IN
       IF e = -1
       THEN /\ ret' = FALSE
            /\ mpc' = "exit"
            /\ UNCHANGED frames
       ELSE /\ frames' = Append(frames, Frame(mem[work], e, Digits(Side(mem[work]))))
            /\ mpc' = "loop"
            /\ UNCHANGED ret
    /\ UNCHANGED <<mem, work, kind, solutions, limit, rng, size, genVars, callerVars>>
    /\ UNCHANGED appVars

solveBacktrackEnter ==
    /\ kind = "solve" /\ mpc = "enter"
    /\ LET e == FirstEmpty(mem[work]) IN
       IF e = -1
       THEN /\ ret' = TRUE
            /\ mpc' = "exit"
            /\ UNCHANGED frames
       ELSE /\ frames' = Append(frames, Frame(mem[work], e, Digits(Side(mem[work]))))
            /\ mpc' = "loop"
            /\ UNCHANGED ret
    /\ UNCHANGED <<mem, work, kind, solutions, limit, rng, size, genVars, callerVars>>
    /\ UNCHANGED appVars

\* solveBacktrackLoop with the loop "num < 9" in place of "num <= 9"
solveBacktrackLoopShort ==
    /\ kind = "solve" /\ mpc = "loop"
    /\ LET j == NextValid(mem[work], [Top EXCEPT !.numbers = SubSeq(@, 1, Len(@) - 1)]) IN
       IF j = 0
       THEN /\ frames' = Pop
            /\ ret' = FALSE
            /\ mpc' = "exit"
            /\ UNCHANGED mem
       ELSE /\ mem' = [mem EXCEPT ![work] = Put(@, Top.row, Top.col, Top.numbers[j])]
            /\ frames' = SetTopIdx(j)
            /\ mpc' = "enter"
            /\ UNCHANGED ret
    /\ UNCHANGED <<work, kind, solutions, limit, rng, size, genVars, callerVars>>
    /\ UNCHANGED appVars

solveBacktrackLoop ==
    /\ kind = "solve" /\ mpc = "loop"
    /\ LET j == NextValid(mem[work], Top) IN
       IF j = 0
       THEN /\ frames' = Pop
            /\ ret' = FALSE
            /\ mpc' = "exit"
            /\ UNCHANGED mem
       ELSE /\ mem' = [mem EXCEPT ![work] = Put(@, Top.row, Top.col, Top.numbers[j])]
            /\ frames' = SetTopIdx(j)
            /\ mpc' = "enter"
            /\ UNCHANGED ret
    /\ UNCHANGED <<work, kind, solutions, limit, rng, size, genVars, callerVars>>
    /\ UNCHANGED appVars

solveBacktrackExit ==
    /\ kind = "solve" /\ mpc = "exit" /\ frames # <<>>
    /\ IF ret
       THEN /\ frames' = Pop
            /\ UNCHANGED <<mem, mpc>>
       ELSE /\ mem' = [mem EXCEPT ![work] = Put(@, Top.row, Top.col, 0)]
            /\ frames' = SetTopIdx(Top.idx + 1)
            /\ mpc' = "loop"
    /\ UNCHANGED <<work, kind, ret, solutions, limit, rng, size, genVars, callerVars>>
    /\ UNCHANGED appVars

(***************************************************************************)
(* Solution counter: countSolutionsLimited                                 *)
(***************************************************************************)
countSolutionsLimitedEnter ==
    /\ kind = "count" /\ mpc = "enter"
    /\ IF Len(solutions) >= limit
       THEN /\ mpc' = "exit"
            /\ UNCHANGED <<frames, solutions>>
       ELSE LET e == FirstEmpty(mem[work]) IN
            IF e = -1
            THEN /\ solutions' = Append(solutions, CopyGrid(mem[work]))
                 /\ mpc' = "exit"
                 /\ UNCHANGED frames
            ELSE /\ frames' = Append(frames, Frame(mem[work], e, Digits(Side(mem[work]))))
                 /\ mpc' = "loop"
                 /\ UNCHANGED solutions
    /\ UNCHANGED <<mem, work, kind, ret, limit, rng, size, genVars, callerVars>>
    /\ UNCHANGED appVars

\* countSolutionsLimitedLoop with the loop "num < 9" in place of "num <= 9"
countSolutionsLimitedLoopShort ==
    /\ kind = "count" /\ mpc = "loop"
    /\ LET j == NextValid(mem[work], [Top EXCEPT !.numbers = SubSeq(@, 1, Len(@) - 1)]) IN
       IF j = 0
       THEN /\ frames' = Pop
            /\ mpc' = "exit"
            /\ UNCHANGED mem
       ELSE /\ mem' = [mem EXCEPT ![work] = Put(@, Top.row, Top.col, Top.numbers[j])]
            /\ frames' = SetTopIdx(j)
            /\ mpc' = "enter"
    /\ UNCHANGED <<work, kind, ret, solutions, limit, rng, size, genVars, callerVars>>
    /\ UNCHANGED appVars

countSolutionsLimitedLoop ==
    /\ kind = "count" /\ mpc = "loop"
    /\ LET j == NextValid(mem[work], Top) IN
       IF j = 0
       THEN /\ frames' = Pop
            /\ mpc' = "exit"
            /\ UNCHANGED mem
       ELSE /\ mem' = [mem EXCEPT ![work] = Put(@, Top.row, Top.col, Top.numbers[j])]
            /\ frames' = SetTopIdx(j)
            /\ mpc' = "enter"
    /\ UNCHANGED <<work, kind, ret, solutions, limit, rng, size, genVars, callerVars>>
    /\ UNCHANGED appVars

\* countSolutionsLimitedExit without "if (solutions.length >= limit) return"
countSolutionsLimitedExitNoStop ==
    /\ kind = "count" /\ mpc = "exit" /\ frames # <<>>
    /\ mem' = [mem EXCEPT ![work] = Put(@, Top.row, Top.col, 0)]
    /\ frames' = SetTopIdx(Top.idx + 1)
    /\ mpc' = "loop"
    /\ UNCHANGED <<work, kind, ret, solutions, limit, rng, size, genVars, callerVars>>
    /\ UNCHANGED appVars

countSolutionsLimitedExit ==
    /\ kind = "count" /\ mpc = "exit" /\ frames # <<>>
    /\ mem' = [mem EXCEPT ![work] = Put(@, Top.row, Top.col, 0)]
    /\ IF Len(solutions) >= limit
       THEN /\ frames' = Pop
            /\ UNCHANGED mpc
       ELSE /\ frames' = SetTopIdx(Top.idx + 1)
            /\ mpc' = "loop"
    /\ UNCHANGED <<work, kind, ret, solutions, limit, rng, size, genVars, callerVars>>
    /\ UNCHANGED appVars

(***************************************************************************)
(* Completer: generateCompleteSudoku, fillDiagonalBoxes, fillBox, fillBoard *)
(***************************************************************************)
fillBox(board, row, col, random) ==
    LET b == BoxOf[Side(board)] IN
    CHOOSE filled \in
        {[board |-> [r \in 1..Side(board) |-> [c \in 1..Side(board) |->
                       IF /\ r - 1 \in row..(row + b - 1)
                          /\ c - 1 \in col..(col + b - 1)
                       THEN s.array[(r - 1 - row) * b + (c - 1 - col) + 1]
                       ELSE board[r][c]]],
          rng |-> s.rng] : s \in {shuffleArray(Digits(Side(board)), random)}} : TRUE

RECURSIVE fillDiagonalFrom(_, _, _)
\* The loop "for (let box = 0; box < 3; box++)" from box on.
fillDiagonalFrom(board, box, random) ==
    LET b == BoxOf[Side(board)] IN
    IF box >= b THEN [board |-> board, rng |-> random]
    ELSE CHOOSE rest \in {fillDiagonalFrom(f.board, box + 1, f.rng) :
                             f \in {fillBox(board, box * b, box * b, random)}} : TRUE

fillDiagonalBoxes(board, random) == fillDiagonalFrom(board, 0, random)

fillBoardEnter ==
    /\ kind = "fill" /\ mpc = "enter"
    /\ LET e == FirstEmpty(mem[work]) IN
       IF e = -1
       THEN /\ ret' = TRUE
            /\ mpc' = "exit"
            /\ UNCHANGED <<frames, rng>>
       ELSE LET s == shuffleArray(Digits(Side(mem[work])), rng) IN
            /\ frames' = Append(frames, Frame(mem[work], e, s.array))
            /\ rng' = s.rng
            /\ mpc' = "loop"
            /\ UNCHANGED ret
    /\ UNCHANGED <<mem, work, kind, solutions, limit, size, genVars, callerVars>>
    /\ UNCHANGED appVars

fillBoardLoop ==
    /\ kind = "fill" /\ mpc = "loop"
    /\ LET j == NextValid(mem[work], Top) IN
       IF j = 0
       THEN /\ frames' = Pop
            /\ ret' = FALSE
            /\ mpc' = "exit"
            /\ UNCHANGED mem
       ELSE /\ mem' = [mem EXCEPT ![work] = Put(@, Top.row, Top.col, Top.numbers[j])]
            /\ frames' = SetTopIdx(j)
            /\ mpc' = "enter"
            /\ UNCHANGED ret
    /\ UNCHANGED <<work, kind, solutions, limit, rng, size, genVars, callerVars>>
    /\ UNCHANGED appVars

\* fillBoardExit with "return fillBoard(board)" for the recursive call: a
\* failed digit ends the invocation
fillBoardExitGivesUp ==
    /\ kind = "fill" /\ mpc = "exit" /\ frames # <<>>
    /\ IF ret
       THEN /\ frames' = Pop
            /\ UNCHANGED mem
       ELSE /\ mem' = [mem EXCEPT ![work] = Put(@, Top.row, Top.col, 0)]
            /\ frames' = Pop
    /\ UNCHANGED <<work, kind, mpc, ret, solutions, limit, rng, size, genVars, callerVars>>
    /\ UNCHANGED appVars

fillBoardExit ==
    /\ kind = "fill" /\ mpc = "exit" /\ frames # <<>>
    /\ IF ret
       THEN /\ frames' = Pop
            /\ UNCHANGED <<mem, mpc>>
       ELSE /\ mem' = [mem EXCEPT ![work] = Put(@, Top.row, Top.col, 0)]
            /\ frames' = SetTopIdx(Top.idx + 1)
            /\ mpc' = "loop"
    /\ UNCHANGED <<work, kind, ret, solutions, limit, rng, size, genVars, callerVars>>
    /\ UNCHANGED appVars

(***************************************************************************)
(* Puzzle generator: generateSudoku, createPuzzleFromSolution,             *)
(* hasUniqueSolution                                                       *)
(***************************************************************************)
MaxAttempts == 2

\* hasUniqueSolution's "const boardCopy = board.map((row) => [...row])" for
\* the array named obj
WithBoardCopy(m, obj) == [m EXCEPT !.boardCopy = CopyGrid(m[obj])]

\* hasUniqueSolution's "return solutions.length === 1" with the counter's
\* list as it was left
hasUniqueSolutionAtLeastOne == Len(solutions) >= 1

hasUniqueSolution == Len(solutions) = 1

\* The positions array: every (row, col) in row-major order
AllPositions(n) == [k \in 1..(n * n) |-> <<(k - 1) \div n, (k - 1) % n>>]

\* "for (let i = 0; i < 3; i++) { shuffleArray(positions) }": each call
\* returns a shuffled copy that is dropped; positions stays as it was and
\* the random source has made its draws.
ShuffledThrice(pos, random) ==
    [array |-> pos,
     rng |-> AfterShuffle(pos, AfterShuffle(pos, AfterShuffle(pos, random)))]

toRemove == size * size - options.clues

\* The loop test with "removed <= toRemove"
removalGoesOnOneMore == i < Len(positions) /\ removed <= toRemove

\* "for (let i = 0; i < positions.length && removed < toRemove; i++)": its test
removalGoesOn == i < Len(positions) /\ removed < toRemove

\* The Puzzle that generateSudoku returns (id and difficulty left out)
NewPuzzle == [board |-> mem.puzzle, solution |-> mem.solution, clues |-> options.clues]

\* generateSudoku(options) up to the call of fillBoard in generateCompleteSudoku
generateSudoku ==
    /\ gpc = "start" /\ attempts < MaxAttempts
    /\ \E d \in {fillDiagonalBoxes(EmptyGrid(size), rng)} :
          /\ mem' = [mem EXCEPT !.solution = d.board]
          /\ rng' = d.rng
    /\ work' = "solution"
    /\ kind' = "fill"
    /\ frames' = <<>>
    /\ mpc' = "enter"
    /\ attempts' = attempts + 1
    /\ gpc' = "fill"
    /\ UNCHANGED <<ret, solutions, limit, size, options, positions, i, removed,
                   originalValue, returned, callerVars>>
    /\ UNCHANGED appVars

\* generateCompleteSudoku returns the array whatever fillBoard returned, and
\* createPuzzleFromSolution runs up to its removal loop.  On side 4 a run
\* whose diagonal boxes admit no completion ends here: the shape of the
\* program's grids (side 9) rules that case out.
createPuzzleFromSolution ==
    /\ gpc = "fill" /\ kind = "fill" /\ Returned
    /\ size = 4 => ret
    /\ mem' = [mem EXCEPT !.puzzle = CopyGrid(mem.solution)]
    /\ LET s == ShuffledThrice(AllPositions(size), rng) IN
       /\ positions' = s.array
       /\ rng' = s.rng
    /\ removed' = 0
    /\ i' = 0
    /\ kind' = "none"
    /\ gpc' = "walk"
    /\ UNCHANGED <<work, frames, mpc, ret, solutions, limit, size, options,
                   originalValue, attempts, returned, callerVars>>
    /\ UNCHANGED appVars

\* One pass of the removal loop up to the call of countSolutionsLimited in
\* hasUniqueSolution(board)
removeCell ==
    /\ gpc = "walk"
    /\ removalGoesOn
    /\ LET row == positions[i + 1][1]
           col == positions[i + 1][2]
       IN  /\ originalValue' = Cell(mem.puzzle, row, col)
           /\ mem' = WithBoardCopy([mem EXCEPT !.puzzle = Put(@, row, col, 0)], "puzzle")
    /\ solutions' = <<>>
    /\ limit' = 2
    /\ work' = "boardCopy"
    /\ kind' = "count"
    /\ frames' = <<>>
    /\ mpc' = "enter"
    /\ gpc' = "probe"
    /\ UNCHANGED <<ret, rng, size, options, positions, i, removed, attempts, returned,
                   callerVars>>
    /\ UNCHANGED appVars

\* keepOrRestore putting the digit back with row and column swapped
keepOrRestoreSwapped ==
    /\ gpc = "probe" /\ kind = "count" /\ Returned
    /\ IF hasUniqueSolution
       THEN /\ removed' = removed + 1
            /\ UNCHANGED mem
       ELSE /\ mem' = [mem EXCEPT !.puzzle =
                          Put(@, positions[i + 1][2], positions[i + 1][1], originalValue)]
            /\ UNCHANGED removed
    /\ i' = i + 1
    /\ kind' = "none"
    /\ gpc' = "walk"
    /\ UNCHANGED <<work, frames, mpc, ret, solutions, limit, rng, size, options, positions,
                   originalValue, attempts, returned, callerVars>>
    /\ UNCHANGED appVars

\* The rest of the pass, from the return of hasUniqueSolution on
keepOrRestore ==
    /\ gpc = "probe" /\ kind = "count" /\ Returned
    /\ IF hasUniqueSolution
       THEN /\ removed' = removed + 1
            /\ UNCHANGED mem
       ELSE /\ mem' = [mem EXCEPT !.puzzle =
                          Put(@, positions[i + 1][1], positions[i + 1][2], originalValue)]
            /\ UNCHANGED removed
    /\ i' = i + 1
    /\ kind' = "none"
    /\ gpc' = "walk"
    /\ UNCHANGED <<work, frames, mpc, ret, solutions, limit, rng, size, options, positions,
                   originalValue, attempts, returned, callerVars>>
    /\ UNCHANGED appVars

\* The loop ends, createPuzzleFromSolution returns board, and generateSudoku
\* goes on to "options.ensureUnique && !hasUniqueSolution(board)".
createPuzzleFromSolutionReturn ==
    /\ gpc = "walk"
    /\ ~removalGoesOn
    /\ IF options.ensureUnique
       THEN /\ mem' = WithBoardCopy(mem, "puzzle")
            /\ solutions' = <<>>
            /\ limit' = 2
            /\ work' = "boardCopy"
            /\ kind' = "count"
            /\ frames' = <<>>
            /\ mpc' = "enter"
            /\ gpc' = "final"
            /\ UNCHANGED returned
       ELSE /\ returned' = NewPuzzle
            /\ gpc' = "done"
            /\ UNCHANGED <<mem, solutions, limit, work, kind, frames, mpc>>
    /\ UNCHANGED <<ret, rng, size, options, positions, i, removed, originalValue, attempts,
                   callerVars>>
    /\ UNCHANGED appVars

\* generateSudoku from the return of its own hasUniqueSolution(board) on:
\* the retry "return generateSudoku(options)" or the Puzzle
\* generateSudokuReturn with the test "hasUniqueSolution(board)" not negated
generateSudokuReturnInverted ==
    /\ gpc = "final" /\ kind = "count" /\ Returned
    /\ IF hasUniqueSolution
       THEN /\ gpc' = "start"
            /\ UNCHANGED returned
       ELSE /\ returned' = NewPuzzle
            /\ gpc' = "done"
    /\ kind' = "none"
    /\ UNCHANGED <<mem, work, frames, mpc, ret, solutions, limit, rng, size, options,
                   positions, i, removed, originalValue, attempts, callerVars>>
    /\ UNCHANGED appVars

generateSudokuReturn ==
    /\ gpc = "final" /\ kind = "count" /\ Returned
    /\ IF ~hasUniqueSolution
       THEN /\ gpc' = "start"
            /\ UNCHANGED returned
       ELSE /\ returned' = NewPuzzle
            /\ gpc' = "done"
    /\ kind' = "none"
    /\ UNCHANGED <<mem, work, frames, mpc, ret, solutions, limit, rng, size, options,
                   positions, i, removed, originalValue, attempts, callerVars>>
    /\ UNCHANGED appVars

(***************************************************************************)
(* Callers of the solver and of the counter                                *)
(***************************************************************************)
\* solveSudoku searching in the caller's array instead of a copy of it
solveSudokuInPlace ==
    /\ spc = "idle"
    /\ work' = "board"
    /\ kind' = "solve"
    /\ frames' = <<>>
    /\ mpc' = "enter"
    /\ input' = mem.board
    /\ spc' = "solving"
    /\ UNCHANGED <<mem, ret, solutions, limit, rng, size, genVars, result>>
    /\ UNCHANGED appVars

\* solveSudoku(board), up to its call of solveBacktrack(solution)
solveSudoku ==
    /\ spc = "idle"
    /\ mem' = [mem EXCEPT !.solved = CopyGrid(mem.board)]
    /\ work' = "solved"
    /\ kind' = "solve"
    /\ frames' = <<>>
    /\ mpc' = "enter"
    /\ input' = mem.board
    /\ spc' = "solving"
    /\ UNCHANGED <<ret, solutions, limit, rng, size, genVars, result>>
    /\ UNCHANGED appVars

\* solveSudoku, from the return of solveBacktrack on
solveSudokuReturn ==
    /\ spc = "solving" /\ kind = "solve" /\ Returned
    /\ result' = IF ret THEN mem[work] ELSE Null
    /\ kind' = "none"
    /\ spc' = "solved"
    /\ UNCHANGED <<mem, work, frames, mpc, ret, solutions, limit, rng, size, genVars, input>>
    /\ UNCHANGED appVars

\* The counter run on the caller's board as hasUniqueSolution runs it, with
\* the limit of this run in place of 2.
countSolutions ==
    /\ spc = "solved"
    /\ mem' = WithBoardCopy(mem, "board")
    /\ solutions' = <<>>
    /\ work' = "boardCopy"
    /\ kind' = "count"
    /\ frames' = <<>>
    /\ mpc' = "enter"
    /\ spc' = "counting"
    /\ UNCHANGED <<ret, limit, rng, size, genVars, input, result>>
    /\ UNCHANGED appVars

countSolutionsReturn ==
    /\ spc = "counting" /\ kind = "count" /\ Returned
    /\ kind' = "none"
    /\ spc' = "counted"
    /\ UNCHANGED <<mem, work, frames, mpc, ret, solutions, limit, rng, size, genVars,
                   input, result>>
    /\ UNCHANGED appVars

(***************************************************************************)
(* Input grids of the solver and the counter                               *)
(***************************************************************************)
MaxHoles == 4
MaxLimit == 3

\* The sample board of src/lib/ocr-engine.ts
Classic ==
    << <<5, 3, 0, 0, 7, 0, 0, 0, 0>>,
       <<6, 0, 0, 1, 9, 5, 0, 0, 0>>,
       <<0, 9, 8, 0, 0, 0, 0, 6, 0>>,
       <<8, 0, 0, 0, 6, 0, 0, 0, 3>>,
       <<4, 0, 0, 8, 0, 3, 0, 0, 1>>,
       <<7, 0, 0, 0, 2, 0, 0, 0, 6>>,
       <<0, 6, 0, 0, 0, 0, 2, 8, 0>>,
       <<0, 0, 0, 4, 1, 9, 0, 0, 5>>,
       <<0, 0, 0, 0, 8, 0, 0, 7, 9>> >>

\* A complete valid grid of side 9 (it extends Classic) and one of side 4
Base9 ==
    << <<5, 3, 4, 6, 7, 8, 9, 1, 2>>,
       <<6, 7, 2, 1, 9, 5, 3, 4, 8>>,
       <<1, 9, 8, 3, 4, 2, 5, 6, 7>>,
       <<8, 5, 9, 7, 6, 1, 4, 2, 3>>,
       <<4, 2, 6, 8, 5, 3, 7, 9, 1>>,
       <<7, 1, 3, 9, 2, 4, 8, 5, 6>>,
       <<9, 6, 1, 5, 3, 7, 2, 8, 4>>,
       <<2, 8, 7, 4, 1, 9, 6, 3, 5>>,
       <<3, 4, 5, 2, 8, 6, 1, 7, 9>> >>

Base4 ==
    << <<1, 2, 3, 4>>,
       <<3, 4, 1, 2>>,
       <<2, 1, 4, 3>>,
       <<4, 3, 2, 1>> >>

\* Cells (row * side + col) that may be emptied, and cells that may be
\* overwritten with any digit.  Cells 32, 35, 41, 44 of Base9 hold 1 3 / 3 1.
HolePool9 == {2, 32, 35, 41, 44, 73}
HolePool4 == {0, 1, 4, 5, 8, 10, 11, 15}
WrongPool9 == {1, 34}
WrongPool4 == {0, 14}

\* base with the cells of holes emptied and then cell wrong, if any, set to d
Punch(base, holes, wrong, d) ==
    LET n == Len(base) IN
    [r \in 1..n |-> [c \in 1..n |->
        LET k == (r - 1) * n + (c - 1) IN
        IF k = wrong THEN d ELSE IF k \in holes THEN 0 ELSE base[r][c]]]

Punched(base, holePool, wrongPool) ==
    {Punch(base, holes, wrong, d) :
        holes \in {h \in SUBSET holePool : Cardinality(h) <= MaxHoles},
        wrong \in wrongPool \cup {-1},
        d \in 1..Len(base)}

InputGrids(n) ==
    IF n = 9
    THEN Punched(Base9, HolePool9, WrongPool9) \cup {Classic, EmptyGrid(9)}
    ELSE Punched(Base4, HolePool4, WrongPool4) \cup {EmptyGrid(4)}

NoMem == [board |-> Null, solved |-> Null, solution |-> Null, puzzle |-> Null,
          boardCopy |-> Null]

NoOptions == [clues |-> 0, ensureUnique |-> FALSE]

(***************************************************************************)
(* The solver and the counter, each run once on an input grid              *)
(***************************************************************************)
SolveInit ==
    /\ size \in Sides
    /\ \E g \in InputGrids(size) : mem = [NoMem EXCEPT !.board = g]
    /\ limit \in 0..MaxLimit
    /\ work = "board" /\ kind = "none" /\ frames = <<>> /\ mpc = "exit"
    /\ ret = FALSE /\ solutions = <<>> /\ rng = NewRng(0)
    /\ gpc = "off" /\ options = NoOptions /\ positions = <<>> /\ i = 0 /\ removed = 0
    /\ originalValue = 0 /\ attempts = 0 /\ returned = Null
    /\ spc = "idle" /\ input = Null /\ result = Null
    /\ CheckOff /\ UploadOff /\ GameOff /\ StoreOff

SolveNext ==
    \/ solveSudoku
    \/ solveBacktrackEnter
    \/ solveBacktrackLoop
    \/ solveBacktrackExit
    \/ solveSudokuReturn
    \/ countSolutions
    \/ countSolutionsLimitedEnter
    \/ countSolutionsLimitedLoop
    \/ countSolutionsLimitedExit
    \/ countSolutionsReturn

SolveSpec == SolveInit /\ [][SolveNext]_vars

(***************************************************************************)
(* The generator, run once on a request                                    *)
(***************************************************************************)
NumSeeds == 8
MaxRemove == 18

\* options.clues: on side 4 every target, on side 9 the targets that leave
\* at most MaxRemove cells to remove; on both one target above the number
\* of cells
ClueTargets(n) ==
    IF n = 9 THEN {82, 81, 80, 81 - MaxRemove} ELSE 0..17

Init ==
    /\ size \in Sides
    /\ \E c \in ClueTargets(size), u \in BOOLEAN :
          options = [clues |-> c, ensureUnique |-> u]
    /\ \E seed \in 0..(NumSeeds - 1) : rng = NewRng(seed)
    /\ mem = NoMem
    /\ work = "solution" /\ kind = "none" /\ frames = <<>> /\ mpc = "exit"
    /\ ret = FALSE /\ solutions = <<>> /\ limit = 2
    /\ gpc = "start" /\ positions = <<>> /\ i = 0 /\ removed = 0
    /\ originalValue = 0 /\ attempts = 0 /\ returned = Null
    /\ spc = "off" /\ input = Null /\ result = Null
    /\ CheckOff /\ UploadOff /\ GameOff /\ StoreOff

Next ==
    \/ generateSudoku
    \/ fillBoardEnter
    \/ fillBoardLoop
    \/ fillBoardExit
    \/ createPuzzleFromSolution
    \/ removeCell
    \/ countSolutionsLimitedEnter
    \/ countSolutionsLimitedLoop
    \/ countSolutionsLimitedExit
    \/ keepOrRestore
    \/ createPuzzleFromSolutionReturn
    \/ generateSudokuReturn

Spec == Init /\ [][Next]_vars

\* generateSudoku runs on one thread from its call to its return: a step
\* that can be taken is taken.
MaxLiveSeeds == 1

\* The requests of Init, those on side 9 with the seeds 1..MaxLiveSeeds
LiveInit == Init /\ (size = 9 => rng.seed \in 1..MaxLiveSeeds)

LiveSpec == LiveInit /\ [][Next]_vars /\ WF_vars(Next)

(***************************************************************************)
(* Fingerprint of an uploaded board: createPuzzleHash                      *)
(***************************************************************************)
\* Strings are sequences of one-character strings.
DigitChar == <<"0", "1", "2", "3", "4", "5", "6", "7", "8", "9">>

\* String.prototype.charCodeAt for the characters of a decimal numeral
CharCode(ch) ==
    IF ch = "-" THEN 45 ELSE 47 + (CHOOSE k \in 1..10 : DigitChar[k] = ch)

RECURSIVE DecimalDigits(_)
\* The decimal numeral of n >= 0
DecimalDigits(n) ==
    IF n < 10 THEN <<DigitChar[n + 1]>>
    ELSE Append(DecimalDigits(n \div 10), DigitChar[(n % 10) + 1])

\* Number.prototype.toString for an integer, also what join("") makes of it
ToDecimalString(n) ==
    IF n >= 0 THEN DecimalDigits(n)
    ELSE LET last == (10 - (n % 10)) % 10
             rest == -((n + last) \div 10)
         IN  <<"-">> \o (IF rest = 0 THEN <<>> ELSE DecimalDigits(rest))
                     \o <<DigitChar[last + 1]>>

RECURSIVE joinFrom(_, _)
\* strs[1] \o ... \o strs[k]
joinFrom(strs, k) == IF k = 0 THEN <<>> ELSE joinFrom(strs, k - 1) \o strs[k]

\* boardString with the empty cells left out of each row
boardStringNoZeros(board) ==
    joinFrom([r \in 1..Len(board) |->
                 joinFrom([c \in 1..Len(board[r]) |->
                              IF board[r][c] = 0 THEN <<>> ELSE ToDecimalString(board[r][c])],
                          Len(board[r]))],
             Len(board))

\* board.map((row) => row.join("")).join("")
boardString(board) ==
    joinFrom([r \in 1..Len(board) |->
                 joinFrom([c \in 1..Len(board[r]) |-> ToDecimalString(board[r][c])],
                          Len(board[r]))],
             Len(board))

\* A 32-bit integer is kept as the signed value, -2^31 .. 2^31 - 1, and taken
\* apart in 16-bit halves wherever a product or a sum could leave that range.
Half == 65536

\* The signed 32-bit integer with the unsigned halves hi and lo
Signed(hi, lo) == IF hi >= Half \div 2 THEN (hi - Half) * Half + lo ELSE hi * Half + lo

\* hash << 4 in place of hash << 5
ShiftLeft4(x) ==
    LET lo == (x % Half) * 16
        hi == (x \div Half) * 16 + (lo \div Half)
    IN  Signed(hi % Half, lo % Half)

\* hash << 5
ShiftLeft5(x) ==
    LET lo == (x % Half) * 32
        hi == (x \div Half) * 32 + (lo \div Half)
    IN  Signed(hi % Half, lo % Half)

\* (a - b + c) & itself: the sum is exact in a double, "&" keeps it modulo 2^32
ToInt32OfSum(a, b, c) ==
    LET lo == (a % Half) - (b % Half) + c
        hi == (a \div Half) - (b \div Half) + (lo \div Half)
    IN  Signed(hi % Half, lo % Half)

\* One pass of the loop: hash = (hash << 5) - hash + char; hash = hash & hash
hashStep(hash, char) ==
    CHOOSE next \in {ToInt32OfSum(ShiftLeft5(h), h, char) : h \in {hash}} : TRUE

RECURSIVE hashOver(_, _, _, _)
\* The loop "for (let i = 0; i < boardString.length; i++)" run over the
\* characters lo..hi of str (counted from 1), starting from hash
hashOver(hash, str, lo, hi) ==
    IF lo > hi THEN hash
    ELSE IF lo = hi THEN hashStep(hash, CharCode(str[lo]))
    ELSE LET mid == (lo + hi) \div 2
         IN  CHOOSE upper \in {hashOver(lower, str, mid + 1, hi) :
                                  lower \in {hashOver(hash, str, lo, mid)}} : TRUE

\* hash after each prefix of boardString: hashes(str)[k] after k characters
hashes(str) == [k \in 0..Len(str) |-> hashOver(0, str, 1, k)]

createPuzzleHash(board) ==
    LET str == boardString(board) IN ToDecimalString(hashes(str)[Len(str)])

(***************************************************************************)
(* Uploaded boards: validateExtractedPuzzle, hasConflicts,                 *)
(* checkForDuplicate, handleFileUpload                                     *)
(***************************************************************************)
\* "!board || board.length !== 9 || !board.every((row) => row.length === 9)"
\* is false
structureOk(board) ==
    /\ board # Null
    /\ Len(board) = 9
    /\ \A r \in 1..Len(board) : Len(board[r]) = 9

\* numbersOk with the test "cell < 0" alone
numbersOkNoUpperTest(board) ==
    \A row \in 0..8 : \A col \in 0..8 : ~(Cell(board, row, col) < 0)

\* No cell has "cell < 0 || cell > 9"
numbersOk(board) ==
    \A row \in 0..8 : \A col \in 0..8 :
        ~(Cell(board, row, col) < 0 \/ Cell(board, row, col) > 9)

\* ocrIsValidMove without its column loop
ocrIsValidMoveNoColumn(board, row, col, num) ==
    LET b == BoxOf[Side(board)]
        boxRow == (row \div b) * b
        boxCol == (col \div b) * b
    IN  /\ \A x \in 0..(Side(board) - 1) : Cell(board, row, x) # num
        /\ \A r \in boxRow..(boxRow + b - 1) : \A c \in boxCol..(boxCol + b - 1) :
              Cell(board, r, c) # num

\* isValidMove of src/lib/ocr-engine.ts: the cell (row, col) is scanned too
ocrIsValidMove(board, row, col, num) ==
    LET b == BoxOf[Side(board)]
        boxRow == (row \div b) * b
        boxCol == (col \div b) * b
    IN  /\ \A x \in 0..(Side(board) - 1) : Cell(board, row, x) # num
        /\ \A x \in 0..(Side(board) - 1) : Cell(board, x, col) # num
        /\ \A r \in boxRow..(boxRow + b - 1) : \A c \in boxCol..(boxCol + b - 1) :
              Cell(board, r, c) # num

\* hasConflictsAt with "board[row][col] = num" after the early return
hasConflictsAtReturnFirst(scan, row, col) ==
    LET num == Cell(scan.board, row, col)
    IN  IF scan.result \/ num = 0 THEN scan
        ELSE CHOOSE out \in
                {[board |-> IF ocrIsValidMove(cleared, row, col, num)
                            THEN Put(cleared, row, col, num)
                            ELSE cleared,
                  result |-> ~ocrIsValidMove(cleared, row, col, num)] :
                    cleared \in {Put(scan.board, row, col, 0)}} : TRUE

\* One cell of the scan of hasConflicts: the cell is emptied, tested and
\* written back; scan is the board and the value returned so far
hasConflictsAt(scan, row, col) ==
    LET num == Cell(scan.board, row, col)
    IN  IF scan.result \/ num = 0 THEN scan
        ELSE CHOOSE out \in
                {[board |-> Put(cleared, row, col, num),
                  result |-> ~ocrIsValidMove(cleared, row, col, num)] :
                    cleared \in {Put(scan.board, row, col, 0)}} : TRUE

\* The inner loop of hasConflicts over the columns of one row
hasConflictsInRow(start, row) ==
    LET n == Side(start.board)
        at[col \in 0..n] ==
            IF col = 0 THEN start
            ELSE CHOOSE out \in
                    {hasConflictsAt(scan, row, col - 1) : scan \in {at[col - 1]}} : TRUE
    IN  at[n]

\* hasConflicts(board): the board as the scan leaves it and the value returned
hasConflicts(board) ==
    LET n == Side(board)
        at[row \in 0..n] ==
            IF row = 0 THEN [board |-> board, result |-> FALSE]
            ELSE CHOOSE out \in
                    {hasConflictsInRow(scan, row - 1) : scan \in {at[row - 1]}} : TRUE
    IN  at[n]

\* countSolutions answering 2
ocrCountSolutionsTwo(board) == 2

\* countSolutions of src/lib/ocr-engine.ts
ocrCountSolutions(board) == 1

HashCap == 1000

\* checkForDuplicate that pushes every fingerprint and never cuts the list
checkForDuplicateNoCap(board, stored, works) ==
    LET hash == createPuzzleHash(board)
    IN  IF ~works
        THEN [isDuplicate |-> FALSE, hashes |-> stored, hash |-> hash]
        ELSE IF \E k \in 1..Len(stored) : stored[k] = hash
        THEN [isDuplicate |-> TRUE, hashes |-> stored, hash |-> hash]
        ELSE [isDuplicate |-> FALSE, hashes |-> Append(stored, hash), hash |-> hash]

\* checkForDuplicate(board) with the stored list hashes; works is false when
\* localStorage throws, which the catch turns into "no duplicate"
checkForDuplicate(board, stored, works) ==
    LET hash == createPuzzleHash(board)
        pushed == Append(stored, hash)
        kept == IF Len(pushed) > HashCap
                THEN SubSeq(pushed, Len(pushed) - HashCap + 1, Len(pushed))
                ELSE pushed
    IN  IF ~works
        THEN [isDuplicate |-> FALSE, hashes |-> stored, hash |-> hash]
        ELSE IF \E k \in 1..Len(stored) : stored[k] = hash
        THEN [isDuplicate |-> TRUE, hashes |-> stored, hash |-> hash]
        ELSE [isDuplicate |-> FALSE, hashes |-> kept, hash |-> hash]

NoDuplicateCheck == [present |-> FALSE, isDuplicate |-> FALSE]

\* The object validateExtractedPuzzle returns
Validation(isValid, multiple, message, solution, duplicate) ==
    [isValid |-> isValid, hasMultipleSolutions |-> multiple, message |-> message,
     solution |-> solution, duplicate |-> duplicate]

\* A return of validateExtractedPuzzle before solveSudoku is called
Rejected(board, message, called) ==
    /\ mem' = [mem EXCEPT !.board = board]
    /\ validation' = Validation(FALSE, FALSE, message, Null, NoDuplicateCheck)
    /\ trace' = called
    /\ upc' = "done"
    /\ UNCHANGED <<puzzleHashes, puzzleHash, hashed, spc>>

MaxUploads == 2

\* Boards an upload may hand to validateExtractedPuzzle
ShortRow == [Base9 EXCEPT ![3] = SubSeq(Base9[3], 1, 8)]
\* Classic with its first two rows filled in
ClassicStarted == [Classic EXCEPT ![1] = Base9[1], ![2] = Base9[2]]
TwoFives == Put(Classic, 0, 6, 5)
ColumnOnly == Put(Classic, 6, 0, 5)
BoxOnly == Put(Classic, 2, 0, 3)
NoCompletion == Punch(Base9, {2, 73}, 1, 4)
TwoCompletions == Punch(Base9, {32, 35, 41, 44}, -1, 1)
UploadBoards ==
    {Null, Base4, ShortRow, Put(Base9, 4, 4, 10), Put(Classic, 8, 0, -1),
     TwoFives, ColumnOnly, BoxOnly, ClassicStarted, Base9,
     Punch(Base9, {2, 32, 73}, -1, 1), NoCompletion, TwoCompletions}

\* validateExtractedPuzzle(board), up to its call of solveSudoku
validateExtractedPuzzle ==
    /\ upc = "idle" /\ uploads < MaxUploads
    /\ \E board \in UploadBoards :
          IF ~structureOk(board)
          THEN Rejected(board, "Invalid board structure detected", <<>>)
          ELSE IF ~numbersOk(board)
          THEN Rejected(board, "Invalid numbers detected in puzzle", <<>>)
          ELSE \E scan \in {hasConflicts(board)} :
             IF scan.result
             THEN Rejected(scan.board,
                           "Puzzle contains conflicts - please check the image",
                           <<"hasConflicts">>)
             ELSE \E duplicateCheck \in
                        {checkForDuplicate(scan.board, puzzleHashes, storageWorks)} :
                /\ mem' = [mem EXCEPT !.board = scan.board]
                /\ puzzleHashes' = duplicateCheck.hashes
                /\ puzzleHash' = duplicateCheck.hash
                /\ hashed' = hashed \cup
                       {[board |-> scan.board, hash |-> duplicateCheck.hash]}
                /\ validation' = Validation(FALSE, FALSE, "", Null,
                       [present |-> TRUE,
                        isDuplicate |-> duplicateCheck.isDuplicate])
                /\ trace' = <<"hasConflicts", "checkForDuplicate", "solveSudoku">>
                /\ spc' = "idle"
                /\ upc' = "solving"
    /\ UNCHANGED <<work, kind, frames, mpc, ret, solutions, limit, rng>>
    /\ UNCHANGED <<size, genVars, input, result, checkVars, gameVars, storeVars, uploads, puzzle>>

\* validateExtractedPuzzleReturn without the test "!solution"
validateExtractedPuzzleReturnNoNullTest ==
    /\ upc = "solving" /\ spc = "solved"
    /\ validation' = Validation(TRUE, ocrCountSolutions(mem.board) > 1,
                        "Puzzle extracted successfully with unique solution",
                        result, validation.duplicate)
    /\ trace' = Append(trace, "countSolutions")
    /\ upc' = "done"
    /\ spc' = "off"
    /\ UNCHANGED <<searchVars, size, genVars, input, result, checkVars, gameVars, storeVars>>
    /\ UNCHANGED <<puzzleHashes, puzzleHash, hashed, uploads, puzzle>>

\* validateExtractedPuzzle, from the return of solveSudoku on
validateExtractedPuzzleReturn ==
    /\ upc = "solving" /\ spc = "solved"
    /\ IF result = Null
       THEN /\ validation' = Validation(FALSE, FALSE, "Puzzle has no valid solution",
                                 Null, validation.duplicate)
            /\ trace' = trace
       ELSE /\ \E solutionCount \in {ocrCountSolutions(mem.board)} :
                 validation' =
                    IF solutionCount > 1
                    THEN Validation(TRUE, TRUE,
                            "Puzzle extracted successfully, but may have multiple solutions",
                            result, validation.duplicate)
                    ELSE Validation(TRUE, FALSE,
                            "Puzzle extracted successfully with unique solution",
                            result, validation.duplicate)
            /\ trace' = Append(trace, "countSolutions")
    /\ upc' = "done"
    /\ spc' = "off"
    /\ UNCHANGED <<searchVars, size, genVars, input, result, checkVars, gameVars, storeVars>>
    /\ UNCHANGED <<puzzleHashes, puzzleHash, hashed, uploads, puzzle>>

\* The number of non-zero cells: board.flat().filter((cell) => cell !== 0).length
FilledCount(board) ==
    Cardinality({k \in 0..(Side(board) * Side(board) - 1) :
                    Cell(board, k \div Side(board), k % Side(board)) # 0})

\* handleFileUpload, from the return of validateExtractedPuzzle on: a valid
\* board becomes a Puzzle, any other only an error message
handleFileUpload ==
    /\ upc = "done"
    /\ puzzle' = IF validation.isValid
                 THEN [board |-> mem.board,
                       solution |-> IF validation.solution = Null THEN <<>>
                                    ELSE validation.solution,
                       clues |-> FilledCount(mem.board)]
                 ELSE puzzle
    /\ uploads' = uploads + 1
    /\ upc' = "idle"
    /\ UNCHANGED <<searchVars, size, genVars, callerVars, checkVars, gameVars, storeVars>>
    /\ UNCHANGED <<validation, trace, puzzleHashes, puzzleHash, hashed>>

\* The item "puzzleHashes" as earlier sessions left it: the fingerprint of
\* Base9 first, then n - 1 others
StoredBefore(n) ==
    IF n = 0 THEN <<>>
    ELSE <<createPuzzleHash(Base9)>> \o [k \in 1..(n - 1) |-> ToDecimalString(k)]

UploadInit ==
    /\ size = 9
    /\ mem = NoMem
    /\ work = "board" /\ kind = "none" /\ frames = <<>> /\ mpc = "exit"
    /\ ret = FALSE /\ solutions = <<>> /\ limit = 0
    /\ rng = NewRng(0)
    /\ gpc = "off" /\ options = NoOptions /\ positions = <<>> /\ i = 0
    /\ removed = 0 /\ originalValue = 0 /\ attempts = 0 /\ returned = Null
    /\ spc = "off" /\ input = Null /\ result = Null
    /\ CheckOff /\ GameOff
    /\ storageWorks \in BOOLEAN /\ gameHistory = <<>> /\ lastGame = Null /\ adds = 0
    /\ upc = "idle" /\ validation = Null /\ trace = <<>>
    /\ puzzleHashes \in IF storageWorks
                        THEN {StoredBefore(0), StoredBefore(HashCap - 1), StoredBefore(HashCap)}
                        ELSE {<<>>}
    /\ puzzleHash = <<>> /\ hashed = {}
    /\ uploads = 0 /\ puzzle = Null

UploadNext ==
    \/ validateExtractedPuzzle
    \/ solveSudoku
    \/ solveBacktrackEnter
    \/ solveBacktrackLoop
    \/ solveBacktrackExit
    \/ solveSudokuReturn
    \/ validateExtractedPuzzleReturn
    \/ handleFileUpload

UploadSpec == UploadInit /\ [][UploadNext]_vars

(***************************************************************************)
(* GameBoard: the handlers of the playing screen                           *)
(***************************************************************************)
MaxHints == 2

\* getHint(solution, row, col): the digit, or 0 for null (the digit returned
\* is never 0, and the caller tests "if (hint)")
getHint(solution, row, col) ==
    IF row + 1 \in DOMAIN solution /\ Cell(solution, row, col) # 0
    THEN Cell(solution, row, col)
    ELSE 0

\* "!solution || solution.length === 0 ||
\*  solution.every((row) => row.every((cell) => cell === 0))"
NoSolution(solution) ==
    \/ solution = Null
    \/ Len(solution) = 0
    \/ \A r \in 1..Len(solution) : \A c \in 1..Len(solution[r]) : solution[r][c] = 0

\* updatedState.endTime once "updatedState.isCompleted && !gameState.isCompleted"
EndTimeAfter(state, isCompleted) ==
    IF isCompleted /\ ~state.isCompleted THEN "now" ELSE state.endTime

\* handleCellClick without its first line: every cell can be selected
handleCellClickAnyCell ==
    /\ bpc = "idle"
    /\ \E row \in 0..8, col \in 0..8 : selectedCell' = <<row, col>>
    /\ UNCHANGED <<searchVars, size, genVars, callerVars, checkVars, uploadVars, storeVars>>
    /\ UNCHANGED <<gameState, settings, bpc, created>>

\* handleCellClick(row, col): a given cell cannot be selected
handleCellClick ==
    /\ bpc = "idle"
    /\ \E row \in 0..8, col \in 0..8 :
          /\ Cell(gameState.puzzle.board, row, col) = 0
          /\ selectedCell' = <<row, col>>
    /\ UNCHANGED <<searchVars, size, genVars, callerVars, checkVars, uploadVars, storeVars>>
    /\ UNCHANGED <<gameState, settings, bpc, created>>

\* handleNumberInput where a completed game stays completed
handleNumberInputStaysCompleted ==
    /\ bpc = "idle"
    /\ selectedCell # Null
    /\ \E num \in 0..9 :
          \E newBoard \in {Put(CopyGrid(gameState.userBoard),
                               selectedCell[1], selectedCell[2], num)} :
             gameState' = [gameState EXCEPT
                              !.userBoard = newBoard,
                              !.isCompleted = gameState.isCompleted \/ validateSudoku(newBoard),
                              !.endTime = EndTimeAfter(gameState, validateSudoku(newBoard))]
    /\ UNCHANGED <<searchVars, size, genVars, callerVars, checkVars, uploadVars, storeVars>>
    /\ UNCHANGED <<selectedCell, settings, bpc, created>>

\* handleNumberInput(num), num = 0 for the erase button
handleNumberInput ==
    /\ bpc = "idle"
    /\ selectedCell # Null
    /\ \E num \in 0..9 :
          \E newBoard \in {Put(CopyGrid(gameState.userBoard),
                               selectedCell[1], selectedCell[2], num)} :
             gameState' = [gameState EXCEPT
                              !.userBoard = newBoard,
                              !.isCompleted = validateSudoku(newBoard),
                              !.endTime = EndTimeAfter(gameState, validateSudoku(newBoard))]
    /\ UNCHANGED <<searchVars, size, genVars, callerVars, checkVars, uploadVars, storeVars>>
    /\ UNCHANGED <<selectedCell, settings, bpc, created>>

\* handleHint and handleSolveBoard where the puzzle has no solution: the call
\* solveSudoku(gameState.puzzle.board)
solveForHandler(handler) ==
    /\ mem' = [mem EXCEPT !.board = gameState.puzzle.board]
    /\ spc' = "idle"
    /\ bpc' = handler
    /\ UNCHANGED <<work, kind, frames, mpc, ret, solutions, limit, rng>>
    /\ UNCHANGED <<size, genVars, input, result, checkVars, uploadVars, storeVars>>
    /\ UNCHANGED <<gameState, selectedCell, settings, created>>

\* handleHint from "const hint = getHint(solution, row, col)" on; state is
\* gameState, whose puzzle the handler may have written to just before
hintWith(state, solution) ==
    LET hint == getHint(solution, selectedCell[1], selectedCell[2]) IN
    IF hint = 0
    THEN /\ gameState' = state
         /\ UNCHANGED selectedCell
    ELSE \E newBoard \in {Put(CopyGrid(state.userBoard),
                              selectedCell[1], selectedCell[2], hint)} :
            /\ gameState' = [state EXCEPT
                                !.userBoard = newBoard,
                                !.hintsUsed = state.hintsUsed + 1,
                                !.isCompleted = validateSudoku(newBoard),
                                !.endTime = EndTimeAfter(state, validateSudoku(newBoard))]
            /\ selectedCell' = Null

\* handleHint, up to its call of solveSudoku if it makes one
handleHint ==
    /\ bpc = "idle"
    /\ selectedCell # Null /\ settings.enableHints
    /\ gameState.hintsUsed < MaxHints
    /\ IF NoSolution(gameState.puzzle.solution)
       THEN solveForHandler("handleHint")
       ELSE /\ hintWith(gameState, gameState.puzzle.solution)
            /\ UNCHANGED <<searchVars, size, genVars, callerVars, checkVars, uploadVars, storeVars>>
            /\ UNCHANGED <<settings, bpc, created>>

\* handleHint, from the return of solveSudoku on
handleHintReturn ==
    /\ bpc = "handleHint" /\ spc = "solved"
    /\ IF result = Null
       THEN UNCHANGED <<gameState, selectedCell>>
       ELSE hintWith([gameState EXCEPT !.puzzle.solution = result], result)
    /\ bpc' = "idle"
    /\ spc' = "off"
    /\ UNCHANGED <<searchVars, size, genVars, input, result, checkVars, uploadVars, storeVars>>
    /\ UNCHANGED <<settings, created>>

\* handleReset
handleReset ==
    /\ bpc = "idle"
    /\ gameState' = [gameState EXCEPT
                        !.userBoard = CopyGrid(gameState.puzzle.board),
                        !.hintsUsed = 0,
                        !.isCompleted = FALSE,
                        !.endTime = "none"]
    /\ UNCHANGED <<searchVars, size, genVars, callerVars, checkVars, uploadVars, storeVars>>
    /\ UNCHANGED <<selectedCell, settings, bpc, created>>

\* handleSolveBoard from "const solvedState" on
solvedWith(state, solution) ==
    gameState' = [state EXCEPT
                     !.userBoard = CopyGrid(solution),
                     !.isCompleted = TRUE,
                     !.endTime = "now"]

\* handleSolveBoard, up to its call of solveSudoku if it makes one
handleSolveBoard ==
    /\ bpc = "idle"
    /\ IF NoSolution(gameState.puzzle.solution)
       THEN solveForHandler("handleSolveBoard")
       ELSE /\ solvedWith(gameState, gameState.puzzle.solution)
            /\ UNCHANGED <<searchVars, size, genVars, callerVars, checkVars, uploadVars, storeVars>>
            /\ UNCHANGED <<selectedCell, settings, bpc, created>>

\* handleSolveBoard, from the return of solveSudoku on
handleSolveBoardReturn ==
    /\ bpc = "handleSolveBoard" /\ spc = "solved"
    /\ IF result = Null
       THEN UNCHANGED gameState
       ELSE solvedWith([gameState EXCEPT !.puzzle.solution = result], result)
    /\ bpc' = "idle"
    /\ spc' = "off"
    /\ UNCHANGED <<searchVars, size, genVars, input, result, checkVars, uploadVars, storeVars>>
    /\ UNCHANGED <<selectedCell, settings, created>>

\* The puzzles a game is started on: board and solution as the generator and
\* the upload make them, and the same boards with no solution, with an empty
\* one and with one of zeros, as a saved game may hold them; an uploaded
\* board may also have no completion or no empty cell
GameBoards == {Punch(Base9, {2, 73}, -1, 1), Punch(Base9, {32, 44}, -1, 1)}
GamePuzzles ==
    {[board |-> b, solution |-> s] :
        b \in GameBoards, s \in {Base9, <<>>, EmptyGrid(9)}}
        \cup {[board |-> NoCompletion, solution |-> <<>>],
              [board |-> Base9, solution |-> Base9]}

\* page.tsx: handleNewGame, handleUploadedPuzzle, or the saved game loaded
NewGameState(p) ==
    [puzzle |-> p, userBoard |-> CopyGrid(p.board), isCompleted |-> FALSE,
     hintsUsed |-> 0, endTime |-> "none"]

GameInit ==
    /\ size = 9
    /\ mem = NoMem
    /\ work = "board" /\ kind = "none" /\ frames = <<>> /\ mpc = "exit"
    /\ ret = FALSE /\ solutions = <<>> /\ limit = 0
    /\ rng = NewRng(0)
    /\ gpc = "off" /\ options = NoOptions /\ positions = <<>> /\ i = 0
    /\ removed = 0 /\ originalValue = 0 /\ attempts = 0 /\ returned = Null
    /\ spc = "off" /\ input = Null /\ result = Null
    /\ CheckOff /\ UploadOff /\ StoreOff
    /\ \E p \in GamePuzzles : gameState = NewGameState(p) /\ created = p
    /\ selectedCell = Null
    /\ settings \in {[enableHints |-> e] : e \in BOOLEAN}
    /\ bpc = "idle"

GameNext ==
    \/ handleCellClick
    \/ handleNumberInput
    \/ handleHint
    \/ handleHintReturn
    \/ handleReset
    \/ handleSolveBoard
    \/ handleSolveBoardReturn
    \/ solveSudoku
    \/ solveBacktrackEnter
    \/ solveBacktrackLoop
    \/ solveBacktrackExit
    \/ solveSudokuReturn

GameSpec == GameInit /\ [][GameNext]_vars

(***************************************************************************)
(* Game history: addGameToHistory of src/lib/storage.ts                    *)
(***************************************************************************)
HistoryCap == 100
MaxAdds == 4

\* loadFromLocalStorage(key) for an item holding value: null where the item is
\* absent or localStorage throws
loadFromLocalStorage(value, works) == IF works /\ value # <<>> THEN value ELSE Null

\* saveToLocalStorage(key, data): the item afterwards; an exception is caught
saveToLocalStorage(value, data, works) == IF works THEN data ELSE value

\* The list addGameToHistory saves, cut at its front end instead of its back
historyAfterAddKeepsOldest(history, game) ==
    LET updated == IF \E k \in 1..Len(history) : history[k].id = game.id
                   THEN [history EXCEPT
                            ![CHOOSE k \in 1..Len(history) : history[k].id = game.id] = game]
                   ELSE Append(history, game)
    IN  IF Len(updated) > HistoryCap THEN SubSeq(updated, 1, HistoryCap) ELSE updated

\* The list addGameToHistory saves: findIndex, replace or push, splice
historyAfterAdd(history, game) ==
    LET existingIndex ==
            IF \E k \in 1..Len(history) : history[k].id = game.id
            THEN (CHOOSE k \in 1..Len(history) :
                     /\ history[k].id = game.id
                     /\ \A j \in 1..(k - 1) : history[j].id # game.id) - 1
            ELSE -1
        updated == IF existingIndex # -1
                   THEN [history EXCEPT ![existingIndex + 1] = game]
                   ELSE Append(history, game)
    IN  IF Len(updated) > HistoryCap
        THEN SubSeq(updated, Len(updated) - HistoryCap + 1, Len(updated))
        ELSE updated

\* Games handed to addGameToHistory: the oldest of the first games, one of the
\* middle, the first new one again, and a new one
GamesToAdd == {[id |-> n, rev |-> adds + 1] : n \in {1, 50, 1000, 1000 + adds}}

\* A history of n games added one after the other
Prefilled(n) == [k \in 1..n |-> [id |-> k, rev |-> 0]]

\* addGameToHistory(game)
addGameToHistory ==
    /\ adds < MaxAdds
    /\ \E game \in GamesToAdd :
          /\ \E history \in {loadFromLocalStorage(gameHistory, storageWorks)} :
                gameHistory' = saveToLocalStorage(gameHistory,
                                   historyAfterAdd(history, game), storageWorks)
          /\ lastGame' = game
    /\ adds' = adds + 1
    /\ UNCHANGED <<searchVars, size, genVars, callerVars, checkVars, uploadVars, gameVars>>
    /\ UNCHANGED storageWorks

HistoryInit ==
    /\ size = 9
    /\ mem = NoMem
    /\ work = "board" /\ kind = "none" /\ frames = <<>> /\ mpc = "exit"
    /\ ret = FALSE /\ solutions = <<>> /\ limit = 0
    /\ rng = NewRng(0)
    /\ gpc = "off" /\ options = NoOptions /\ positions = <<>> /\ i = 0
    /\ removed = 0 /\ originalValue = 0 /\ attempts = 0 /\ returned = Null
    /\ spc = "off" /\ input = Null /\ result = Null
    /\ CheckOff /\ UploadOff /\ GameOff
    /\ storageWorks \in BOOLEAN
    /\ gameHistory \in IF storageWorks
                       THEN {Prefilled(0), Prefilled(HistoryCap - 1), Prefilled(HistoryCap)}
                       ELSE {<<>>}
    /\ lastGame = Null
    /\ adds = 0

HistoryNext == addGameToHistory

HistorySpec == HistoryInit /\ [][HistoryNext]_vars

(***************************************************************************)
(* validateSudoku and isValidMove called on a grid                         *)
(***************************************************************************)
\* The cells isValidMove is asked about
MoveCells(n) == IF n = 9 THEN HolePool9 \cup WrongPool9 ELSE HolePool4 \cup WrongPool4

CheckInit ==
    /\ size \in Sides
    /\ \E g \in InputGrids(size) :
          /\ mem = [NoMem EXCEPT !.board = g]
          /\ input = g
    /\ work = "board" /\ kind = "none" /\ frames = <<>> /\ mpc = "exit"
    /\ ret = FALSE /\ solutions = <<>> /\ limit = 2 /\ rng = NewRng(0)
    /\ gpc = "off" /\ options = NoOptions /\ positions = <<>> /\ i = 0 /\ removed = 0
    /\ originalValue = 0 /\ attempts = 0 /\ returned = Null
    /\ spc = "off" /\ result = Null
    /\ CheckOff /\ UploadOff /\ GameOff /\ StoreOff

\* validateSudoku(board) called on the grid
validateSudokuCall ==
    /\ call.fn = "none"
    /\ call' = [NoCall EXCEPT !.fn = "validateSudoku", !.result = validateSudoku(mem.board)]
    /\ UNCHANGED <<searchVars, size, genVars, callerVars, uploadVars, gameVars, storeVars>>

\* isValidMove(board, row, col, num) called on the grid
isValidMoveCall ==
    /\ call.fn = "none"
    /\ \E p \in MoveCells(size), num \in 1..size :
          LET row == p \div size
              col == p % size
          IN  call' = [fn |-> "isValidMove", row |-> row, col |-> col, num |-> num,
                       result |-> isValidMove(mem.board, row, col, num)]
    /\ UNCHANGED <<searchVars, size, genVars, callerVars, uploadVars, gameVars, storeVars>>

CheckNext ==
    \/ validateSudokuCall
    \/ isValidMoveCall

CheckSpec == CheckInit /\ [][CheckNext]_vars

(***************************************************************************)
(* What the claims speak of, said without the searches                     *)
(***************************************************************************)
CellsOf(g) == 0..(Len(g) * Len(g) - 1)

At(g, p) == g[(p \div Len(g)) + 1][(p % Len(g)) + 1]

SetAt(g, p, d) == [g EXCEPT ![(p \div Len(g)) + 1][(p % Len(g)) + 1] = d]

\* Two different cells of one row, one column or one box
SameUnit(n, p, q) ==
    /\ p # q
    /\ \/ p \div n = q \div n
       \/ p % n = q % n
       \/ /\ (p \div n) \div BoxOf[n] = (q \div n) \div BoxOf[n]
          /\ (p % n) \div BoxOf[n] = (q % n) \div BoxOf[n]

\* No digit occurs twice in a row, a column or a box
ConflictFree(g) ==
    \A p \in CellsOf(g) : At(g, p) # 0 =>
        \A q \in CellsOf(g) : SameUnit(Len(g), p, q) => At(g, q) # At(g, p)

IsComplete(g) == \A p \in CellsOf(g) : At(g, p) # 0

\* h keeps every non-zero cell of g
Keeps(h, g) == \A p \in CellsOf(g) : At(g, p) # 0 => At(h, p) = At(g, p)

\* The complete conflict-free grids that keep the non-zero cells of g, for a
\* conflict-free g: the last empty cell takes each digit none of its peers holds.
RECURSIVE Extensions(_)
Extensions(g) ==
    LET empty == {p \in CellsOf(g) : At(g, p) = 0} IN
    IF empty = {} THEN {g}
    ELSE LET p == CHOOSE x \in empty : \A y \in empty : y <= x
             used == {At(g, q) : q \in {x \in CellsOf(g) : SameUnit(Len(g), p, x)}}
         IN  UNION {Extensions(SetAt(g, p, d)) : d \in (1..Len(g)) \ used}

\* The valid completions of g
Completions(g) == IF ConflictFree(g) THEN Extensions(g) ELSE {}

Min(a, b) == IF a <= b THEN a ELSE b

Range(seq) == {seq[k] : k \in 1..Len(seq)}

\* solveSudoku has just returned
SolveDone == spc = "solved"

\* Number of non-zero cells of g
Clues(g) == Cardinality({p \in CellsOf(g) : At(g, p) # 0})

\* generateSudoku has returned its Puzzle
GenDone == gpc = "done"

(***************************************************************************)
(* Claims about the generator (specification Spec)                         *)
(***************************************************************************)
\* C1: a puzzle returned by generateSudoku with ensureUnique set has exactly
\* one valid completion, and that completion is its solution field.
C1_ReturnedPuzzleHasOneCompletion ==
    GenDone /\ options.ensureUnique =>
        Completions(returned.board) = {returned.solution}

C1_Witness ==
    /\ GenDone /\ options.ensureUnique /\ size = 9
    /\ Clues(returned.board) < 81
    /\ Completions(returned.board) = {returned.solution}

\* C2: in a puzzle returned by generateSudoku every non-zero cell of the
\* board equals the same cell of the solution, and validateSudoku accepts
\* the solution, which is complete and free of conflicts.
C2_BoardWithinValidSolution ==
    GenDone =>
        /\ Keeps(returned.solution, returned.board)
        /\ validateSudoku(returned.solution)
        /\ IsComplete(returned.solution) /\ ConflictFree(returned.solution)

C2_Witness ==
    /\ GenDone /\ size = 9
    /\ Clues(returned.board) < 81
    /\ Keeps(returned.solution, returned.board)
    /\ validateSudoku(returned.solution)

\* C3: the clues field of a returned puzzle equals the number of non-zero
\* cells of its board.
C3_CluesFieldIsClueCount ==
    GenDone => returned.clues = Clues(returned.board)

\* C4: a puzzle returned for a clue target of 0..side*side with ensureUnique
\* set has at least that many non-zero cells.
C4_AtLeastTargetClues ==
    GenDone /\ options.ensureUnique /\ options.clues \in 0..(size * size) =>
        Clues(returned.board) >= options.clues

C4_Witness ==
    /\ GenDone /\ options.ensureUnique
    /\ Clues(returned.board) > options.clues
    /\ i = Len(positions)

(***************************************************************************)
(* Claims about the solver and the counter (specification SolveSpec)       *)
(***************************************************************************)
\* C5 as stated: for every grid with cells in 0..9, solveSudoku returns null
\* or a grid that is complete and valid (validateSudoku accepts it, no cell
\* is empty, no digit repeats in a unit) and that keeps every non-zero cell
\* of the input.
C5_AnyGridSolvedValid ==
    SolveDone /\ result # Null =>
        /\ validateSudoku(result)
        /\ IsComplete(result) /\ ConflictFree(result)
        /\ Keeps(result, input)

\* C5 amended: for every conflict-free grid, solveSudoku returns null or a
\* grid that is complete and valid (validateSudoku accepts it, no cell is
\* empty, no digit repeats in a unit) and that keeps every non-zero cell of
\* the input.
C5_ConflictFreeSolvedValid ==
    SolveDone /\ result # Null /\ ConflictFree(input) =>
        /\ validateSudoku(result)
        /\ IsComplete(result) /\ ConflictFree(result)
        /\ Keeps(result, input)

C5_Witness ==
    /\ SolveDone /\ result # Null /\ ConflictFree(input)
    /\ ~IsComplete(input)
    /\ validateSudoku(result)

\* C6: on a conflict-free grid solveSudoku returns null only when the grid
\* has no valid completion; on the sample board it returns a complete valid
\* grid whose row 0 is 5 3 4 6 7 8 9 1 2.
C6_NullOnlyWhenNoCompletion ==
    SolveDone =>
        /\ (ConflictFree(input) /\ result = Null => Completions(input) = {})
        /\ (input = Classic =>
               /\ result # Null
               /\ validateSudoku(result)
               /\ result[1] = <<5, 3, 4, 6, 7, 8, 9, 1, 2>>)

C6_Witness ==
    /\ SolveDone /\ result = Null
    /\ ConflictFree(input)
    /\ Completions(input) = {}

\* C7: solveSudoku never changes the caller's grid: from the call on, also
\* after the return with a grid or with null, every cell of the caller's
\* grid is as it was at the call.
C7_CallerGridUntouched ==
    spc # "idle" => mem.board = input

C7_Witness ==
    /\ spc = "solved" /\ result # Null
    /\ result # input
    /\ mem.board = input

\* C8 as stated: the counter started with limit L on a grid records min(N, L)
\* solutions, N the number of valid completions of the grid; it never holds
\* more than L, and once it holds L no invocation starts or goes on with its
\* loop; on the empty grid of side 9 it records L; with L = 2 it records
\* exactly one solution exactly when N = 1.
C8_AnyGridCounterRecordsMin ==
    /\ Len(solutions) <= limit
    /\ kind = "count" /\ frames # <<>> /\ Len(solutions) >= limit => mpc = "exit"
    /\ spc = "counted" /\ input = EmptyGrid(9) => Len(solutions) = limit
    /\ spc = "counted" /\ input \notin {EmptyGrid(9), Classic} =>
          /\ Len(solutions) = Min(Cardinality(Completions(input)), limit)
          /\ (limit = 2 => (Len(solutions) = 1 <=> Cardinality(Completions(input)) = 1))

\* C8 amended: the counter started with limit L on a conflict-free grid
\* records min(N, L) solutions, N the number of valid completions, all of
\* them different valid completions; it never holds more than L, and once
\* it holds L no invocation starts or goes on with its loop; on the empty
\* grid of side 9 it records L; with L = 2 it records exactly one solution
\* exactly when N = 1.
C8_CounterRecordsMinOfCountAndLimit ==
    /\ Len(solutions) <= limit
    /\ kind = "count" /\ frames # <<>> /\ Len(solutions) >= limit => mpc = "exit"
    /\ spc = "counted" /\ input = EmptyGrid(9) => Len(solutions) = limit
    /\ spc = "counted" /\ ConflictFree(input) /\ input \notin {EmptyGrid(9), Classic} =>
          /\ Len(solutions) = Min(Cardinality(Completions(input)), limit)
          /\ Range(solutions) \subseteq Completions(input)
          /\ Cardinality(Range(solutions)) = Len(solutions)
          /\ (limit = 2 => (Len(solutions) = 1 <=> Cardinality(Completions(input)) = 1))

C8_Witness ==
    /\ spc = "counted" /\ limit = 2
    /\ ConflictFree(input) /\ input \notin {EmptyGrid(9), Classic}
    /\ Cardinality(Completions(input)) > 2
    /\ Len(solutions) = 2

\* C9: whenever solveSudoku returns a grid for a board, the counter with
\* limit 2 records at least one solution on the same board.
C9_SolvedImpliesCounted ==
    spc = "counted" /\ limit = 2 /\ result # Null => Len(solutions) >= 1

C9_Witness ==
    spc = "counted" /\ limit = 2 /\ result # Null /\ Len(solutions) = 1

\* C10: solveSudoku applied to a complete valid grid returns a grid equal to it.
C10_SolvedGridReturnedAsIs ==
    SolveDone /\ validateSudoku(input) => result = input

C10_Witness ==
    spc = "solved" /\ validateSudoku(input) /\ result = input /\ Len(input) = 9

(***************************************************************************)
(* Claims about the constraint checker (specification CheckSpec)           *)
(***************************************************************************)
\* C11: validateSudoku(board) is true if and only if every cell of board is
\* non-zero and no two cells of one row, one column or one box hold equal
\* digits.
C11_ValidateIffCompleteAndConflictFree ==
    call.fn = "validateSudoku" =>
        (call.result <=> IsComplete(input) /\ ConflictFree(input))

C11_Witness ==
    /\ call.fn = "validateSudoku" /\ ~call.result
    /\ IsComplete(input) /\ ~ConflictFree(input)

\* The cells other than (row, col) of row row, of column col and of the box
\* with origin (row - row % b, col - col % b), b the side of a box
ElsewhereInUnits(n, row, col) ==
    LET b == BoxOf[n]
        boxRow == row - (row % b)
        boxCol == col - (col % b)
    IN  {<<r, c>> \in (0..(n - 1)) \X (0..(n - 1)) :
            /\ <<r, c>> # <<row, col>>
            /\ \/ r = row
               \/ c = col
               \/ /\ r \in boxRow..(boxRow + b - 1)
                  /\ c \in boxCol..(boxCol + b - 1)}

\* C12: isValidMove(board, row, col, num) is false exactly when num occurs in
\* a cell other than (row, col) of the row, the column or the box of
\* (row, col); the result is the same whatever value (row, col) holds, and
\* the grid is left as it was.
C12_MoveInvalidIffDigitElsewhere ==
    call.fn = "isValidMove" =>
        /\ ~call.result <=>
              \E q \in ElsewhereInUnits(size, call.row, call.col) :
                  Cell(input, q[1], q[2]) = call.num
        /\ \A v \in 0..size :
              isValidMove(Put(input, call.row, call.col, v), call.row, call.col, call.num)
                  = call.result
        /\ mem.board = input

C12_Witness ==
    /\ call.fn = "isValidMove" /\ call.result /\ size = 9
    /\ Cell(input, call.row, call.col) = call.num

(***************************************************************************)
(* Claims about the completer (specification Spec)                         *)
(***************************************************************************)
\* fillBoard, called by generateCompleteSudoku, has just returned
FillDone == gpc = "fill" /\ kind = "fill" /\ Returned

\* C13: whatever permutations fill the diagonal boxes and whatever digit
\* orders the fill draws, fillBoard succeeds on a grid of side 9 and the
\* grid generateCompleteSudoku returns is complete and valid; on any side a
\* fill that succeeds leaves a complete valid grid.
C13_CompleterReturnsValidGrid ==
    FillDone =>
        /\ size = 9 => ret
        /\ ret => /\ validateSudoku(mem.solution)
                  /\ IsComplete(mem.solution) /\ ConflictFree(mem.solution)

C13_Witness ==
    /\ FillDone /\ size = 9 /\ ret
    /\ validateSudoku(mem.solution)
    /\ rng.k > 3 * 8 + 54 * 8

\* C14: every call of generateSudoku returns a Puzzle, after one generation
\* attempt: the retry after the final uniqueness check is never taken more
\* than a bounded number of times, for every clue target.  (A run on side 4
\* whose diagonal boxes admit no completion ends when its fill returns.)
C14_GenerationTerminates ==
    /\ [](attempts <= 1)
    /\ <>(GenDone \/ (size = 4 /\ FillDone /\ ~ret))

C14_Witness ==
    /\ GenDone /\ options.ensureUnique /\ attempts = 1
    /\ size = 4 /\ options.clues < 4
    /\ returned # Null

\* A board that is missing, is not 9 rows of 9 cells, or holds a cell below 0
\* or above 9
Malformed(board) ==
    \/ board = Null
    \/ Len(board) # 9
    \/ \E r \in 1..Len(board) : Len(board[r]) # 9
    \/ \E r \in 1..Len(board) : \E c \in 1..Len(board[r]) :
          board[r][c] < 0 \/ board[r][c] > 9

\* C15: validateExtractedPuzzle answers isValid = false for every board that is
\* missing, is not 9 rows of 9 cells or holds a cell below 0 or above 9, and it
\* returns at once: the conflict scan, the duplicate store and the solver are
\* not reached.
C15_MalformedBoardRejectedFirst ==
    [][(upc = "idle" /\ upc' # "idle" /\ Malformed(mem'.board)) =>
          /\ upc' = "done"
          /\ ~validation'.isValid
          /\ trace' = <<>>
          /\ puzzleHashes' = puzzleHashes
          /\ spc' = spc /\ kind' = kind /\ result' = result]_vars

C15_Witness ==
    /\ upc = "done"
    /\ mem.board # Null /\ Len(mem.board) = 9
    /\ \A r \in 1..9 : Len(mem.board[r]) = 9
    /\ \E r \in 1..9 : \E c \in 1..9 : mem.board[r][c] > 9
    /\ ~validation.isValid
    /\ trace = <<>>

\* C16: for a well-formed board hasConflicts is true exactly when a non-zero
\* digit occurs twice in a row, a column or a box, and then
\* validateExtractedPuzzle answers isValid = false and solveSudoku is not
\* called.
C16_ConflictsRejectedBeforeSolver ==
    [][(upc = "idle" /\ upc' # "idle" /\ ~Malformed(mem'.board)) =>
          /\ hasConflicts(mem'.board).result <=> ~ConflictFree(mem'.board)
          /\ ~ConflictFree(mem'.board) =>
                /\ upc' = "done"
                /\ ~validation'.isValid
                /\ validation'.solution = Null
                /\ trace' = <<"hasConflicts">>
                /\ spc' = spc /\ kind' = kind /\ result' = result]_vars

\* Two 5s in row 0 and in no common column or box
C16_Witness ==
    /\ upc = "done"
    /\ mem.board = TwoFives
    /\ Cell(mem.board, 0, 0) = 5 /\ Cell(mem.board, 0, 6) = 5
    /\ hasConflicts(mem.board).result
    /\ ~validation.isValid

\* C17: whenever validateExtractedPuzzle answers isValid = true, the solution
\* it returns is a complete valid grid that agrees with the board on every
\* non-zero cell of the board, and the Puzzle handleFileUpload builds from it
\* holds that board and that solution.
C17_ValidUploadHasConsistentSolution ==
    /\ (upc = "done" /\ validation.isValid) =>
          /\ validation.solution # Null
          /\ validateSudoku(validation.solution)
          /\ IsComplete(validation.solution) /\ ConflictFree(validation.solution)
          /\ Keeps(validation.solution, mem.board)
    /\ (upc = "idle" /\ puzzle # Null) =>
          /\ puzzle.solution # <<>>
          /\ validateSudoku(puzzle.solution)
          /\ Keeps(puzzle.solution, puzzle.board)
          /\ puzzle.clues = Cardinality({p \in CellsOf(puzzle.board) : At(puzzle.board, p) # 0})

\* An accepted board with empty cells that the solver had to fill
C17_Witness ==
    /\ upc = "done"
    /\ validation.isValid
    /\ mem.board = ClassicStarted
    /\ \E p \in CellsOf(mem.board) : At(mem.board, p) = 0
    /\ IsComplete(validation.solution)

\* The 81-character digit string of a board with cells 0..9, row by row
DigitString(board) == [k \in 1..(9 * 9) |-> DigitChar[At(board, k - 1) + 1]]

\* h * 31 + c wrapped to a 32-bit signed integer, computed byte by byte
Times31Plus(h, c) ==
    LET b0 == h % 256
        b1 == (h \div 256) % 256
        b2 == (h \div 65536) % 256
        b3 == (h \div 16777216) % 256
        s0 == b0 * 31 + c
        s1 == b1 * 31 + (s0 \div 256)
        s2 == b2 * 31 + (s1 \div 256)
        s3 == b3 * 31 + (s2 \div 256)
        top == s3 % 256
    IN  (IF top >= 128 THEN top - 256 ELSE top) * 16777216
            + (s2 % 256) * 65536 + (s1 % 256) * 256 + (s0 % 256)

RECURSIVE DigitsValue(_, _)
\* The integer sign * (the number the digit characters of str spell)
DigitsValue(str, sign) ==
    IF str = <<>> THEN 0
    ELSE DigitsValue(SubSeq(str, 1, Len(str) - 1), sign) * 10
            + sign * (CharCode(str[Len(str)]) - 48)

\* The integer a decimal numeral without leading zeros spells
DecimalValue(str) ==
    IF str[1] = "-" THEN DigitsValue(Tail(str), -1) ELSE DigitsValue(str, 1)

IsDecimalNumeral(str) ==
    LET digits == IF str[1] = "-" THEN Tail(str) ELSE str
    IN  /\ digits # <<>>
        /\ \A k \in 1..Len(digits) : \E d \in 1..10 : digits[k] = DigitChar[d]
        /\ Len(digits) > 1 => digits[1] # "0"
        /\ str[1] = "-" => digits # <<"0">>

\* C18: createPuzzleHash(board) is the decimal string of the fold
\* h = h * 31 + charCode over the row-major digit string of the board, from 0,
\* wrapped to a 32-bit signed integer after every character; the code's
\* (hash << 5) - hash + char followed by the truncation is that value at
\* every step.
C18_HashIsWrappedFoldTimes31 ==
    (upc = "solving" /\ spc = "idle") =>
        LET str == DigitString(mem.board) IN
        \A h \in {hashes(boardString(mem.board))} :
            /\ boardString(mem.board) = str
            /\ h[0] = 0
            /\ \A k \in 1..Len(str) :
                  h[k] = Times31Plus(h[k - 1], 48 + At(mem.board, k - 1))
            /\ puzzleHash = createPuzzleHash(mem.board)
            /\ IsDecimalNumeral(puzzleHash)
            /\ DecimalValue(puzzleHash) = h[Len(str)]

\* A fingerprint below zero: the fold has wrapped
C18_Witness ==
    /\ upc = "solving" /\ spc = "idle"
    /\ puzzleHash # <<>>
    /\ puzzleHash[1] = "-"
    /\ DecimalValue(puzzleHash) < 0
    /\ \E p \in CellsOf(mem.board) : At(mem.board, p) = 0

C20_PuzzleNeverMutated ==
    bpc # "off" =>
        /\ gameState.puzzle.board = created.board
        /\ gameState.puzzle.solution = created.solution

\* The last n entries of a list, in their order
LastEntries(list, n) ==
    IF Len(list) <= n THEN list
    ELSE [k \in 1..n |-> list[Len(list) - n + k]]

ThriceShuffled(pos, random) ==
    CHOOSE third \in
        {shuffleArray(second.array, second.rng).array :
            second \in {shuffleArray(first.array, first.rng) :
                           first \in {shuffleArray(pos, random)}}} : TRUE

\* C22: createPuzzleFromSolution walks the coordinates in a shuffled order:
\* when the removal walk starts, positions is the row-major enumeration as the
\* three shuffles left it.
C22_WalkOrderIsShuffled ==
    (gpc = "walk" /\ i = 0) =>
        positions = ThriceShuffled(AllPositions(size),
                        [rng EXCEPT !.k = rng.k - 3 * (size * size - 1)])

\* The coordinates the removal walk has visited so far, as cell numbers
Visited == {positions[k][1] * size + positions[k][2] : k \in 1..i}

C24_DuplicateIffFingerprintStored ==
    /\ [](Len(puzzleHashes) <= 1000)
    /\ [][(upc = "idle" /\ upc' = "solving") =>
             \A h \in {createPuzzleHash(mem'.board)} :
                /\ puzzleHash' = h
                /\ validation'.duplicate.isDuplicate <=> h \in Range(puzzleHashes)
                /\ puzzleHashes' =
                      IF h \in Range(puzzleHashes) \/ ~storageWorks THEN puzzleHashes
                      ELSE LastEntries(Append(puzzleHashes, h), 1000)]_vars
    /\ [][(upc = "solving" /\ upc' = "done") =>
             /\ validation'.duplicate = validation.duplicate
             /\ puzzleHashes' = puzzleHashes]_vars

\* Base9 uploaded after its fingerprint, the oldest of a full list, was
\* dropped for that of another board: no duplicate, and it is recorded again
C24_Witness ==
    /\ uploads = 1 /\ upc = "solving" /\ spc = "idle"
    /\ mem.board = Base9
    /\ ~validation.duplicate.isDuplicate
    /\ Len(puzzleHashes) = 1000
    /\ puzzleHashes[1000] = puzzleHash
    /\ puzzleHashes[1] = ToDecimalString(2)

\* C25: the board createPuzzleFromSolution returns has exactly one valid
\* completion, the solution, for every clue target and with ensureUnique set
\* or not; the final uniqueness check of generateSudoku therefore succeeds,
\* and no call makes a second generation attempt.
C25_WalkResultUniqueNoRetry ==
    /\ ((gpc = "walk" /\ ~removalGoesOn) \/ gpc = "done") =>
          Completions(mem.puzzle) = {mem.solution}
    /\ (gpc = "final" /\ kind = "count" /\ Returned) => hasUniqueSolution
    /\ attempts <= 1

\* A puzzle with empty cells returned without the final check
C25_Witness ==
    /\ GenDone /\ ~options.ensureUnique /\ attempts = 1
    /\ Clues(returned.board) < size * size
    /\ returned.board = mem.puzzle
    /\ Completions(returned.board) = {returned.solution}

\* g comes before h when the digits of the empty cells of board are compared
\* in row-major order
LexBefore(g, h, board) ==
    \E p \in CellsOf(board) :
        /\ At(board, p) = 0
        /\ At(g, p) < At(h, p)
        /\ \A q \in 0..(p - 1) : At(board, q) = 0 => At(g, q) = At(h, q)

\* C26: a grid solveSudoku returns for a conflict-free input is a valid
\* completion of the input and comes before every other valid completion
\* when the digits of the input's empty cells are compared in row-major
\* order.  (The empty grid of side 9 has too many completions to list.)
C26_SolvedGridIsSmallestCompletion ==
    (SolveDone /\ result # Null /\ ConflictFree(input) /\ input # EmptyGrid(9)) =>
        \A all \in {Completions(input)} :
            /\ result \in all
            /\ \A other \in all : other = result \/ LexBefore(result, other, input)

\* An input with several valid completions, solved
C26_Witness ==
    /\ SolveDone /\ result # Null /\ ConflictFree(input) /\ input # EmptyGrid(9)
    /\ \E p \in CellsOf(input) : At(input, p) = 0
    /\ Cardinality(Completions(input)) >= 2

SolutionKeepsGivens ==
    NoSolution(created.solution) \/ Keeps(created.solution, created.board)

\* C28: in a game whose solution agrees with its board on the given cells,
\* whatever cells were clicked, digits entered or erased, hints taken, and
\* however often the board was reset or solved, every given cell holds in
\* userBoard the digit it has in puzzle.board, and only a cell that is empty
\* in puzzle.board is ever selected.
C28_GivenCellsKeepTheirDigits ==
    (bpc # "off" /\ SolutionKeepsGivens) =>
        /\ \A row \in 0..8, col \in 0..8 :
              Cell(gameState.puzzle.board, row, col) # 0 =>
                 Cell(gameState.userBoard, row, col)
                    = Cell(gameState.puzzle.board, row, col)
        /\ selectedCell # Null =>
              Cell(gameState.puzzle.board, selectedCell[1], selectedCell[2]) = 0

\* A cell is selected in a game where digits were entered and a hint taken
C28_Witness ==
    /\ bpc = "idle" /\ selectedCell # Null
    /\ ~NoSolution(created.solution) /\ Keeps(created.solution, created.board)
    /\ gameState.hintsUsed > 0
    /\ gameState.userBoard # gameState.puzzle.board
    /\ Cell(gameState.userBoard, selectedCell[1], selectedCell[2]) \notin
          {0, Cell(gameState.puzzle.solution, selectedCell[1], selectedCell[2])}

\* The game was started on a board with an empty cell and with a solution
\* that is a valid completion of it
StartedPlayable ==
    /\ ~IsComplete(created.board)
    /\ ~NoSolution(created.solution)
    /\ IsComplete(created.solution) /\ Keeps(created.solution, created.board)
    /\ ConflictFree(created.solution)

\* C29: in a game started on a board with an empty cell and a valid
\* solution, isCompleted is true exactly when validateSudoku(userBoard) is,
\* after any inputs, hints, resets and solve-board actions.
C29_CompletedIffBoardValid ==
    \/ bpc = "off"
    \/ gameState.isCompleted = validateSudoku(gameState.userBoard)
    \/ ~StartedPlayable

\* A game that was completed and then edited: no longer completed
C29_Witness ==
    /\ bpc = "idle" /\ StartedPlayable
    /\ gameState.endTime = "now" /\ gameState.hintsUsed > 0
    /\ ~gameState.isCompleted
    /\ ~validateSudoku(gameState.userBoard)

=============================================================================
